---- MODULE Spec2Model ----
(***************************************************************************)
(* Session-accounting core of the voice/stream tracker:                    *)
(*   database.py  VoiceTrackerDatabase (relational store, in-memory        *)
(*                fallback connection, flat-file JSON store)               *)
(*   tracker.py   VoiceTimeTracker.handle_voice_state_update               *)
(*                                                                         *)
(* Time is counted in ticks of the stored timestamps' resolution (one      *)
(* second).  `now` is the UTC clock; the host's naive local clock reads    *)
(* now + utcOffset.  A stored timestamp is a zone-less reading, as the     *)
(* text "YYYY-MM-DD HH:MM:SS" is.  The columns username, last_joined and   *)
(* last_streamed are written but never read by the core; they are left out.*)
(***************************************************************************)
EXTENDS Integers, Sequences, FiniteSets, TLC

VARIABLES
    backend,     \* "sqlite" when SQLITE_AVAILABLE, else "json"
    utcOffset,   \* host local time minus UTC, in ticks
    now,         \* the UTC clock
    diskOk,      \* whether sqlite3.connect(db_path) succeeds at this moment
    writeOk,     \* whether the persisting write (commit, temp write, rename) succeeds
    disk,        \* the persisted store: the sqlite file, or the JSON document
    mem,         \* the tables of the ':memory:' connection
    memory_db,   \* self.memory_db: "none", "open" or "closed"
    lastOp,      \* the most recent operation: [user, kind]
    calls,       \* the ledger calls made by the most recent operation, in order
    ops,         \* number of operations invoked so far
    prev,        \* history: per user, the last mutating ledger call
    credited,    \* history: per user and type, the ends that found a session
    prevEv,      \* history: per user, the last presence event handled
    trail,       \* history: per user, the presence events since construction
    presence,    \* per user, the voice state the event source last reported
    lock,        \* self.lock: 0 when free, else the thread holding it
    pc,          \* flat-file callers: per thread, its position in the call
    job,         \* per thread, the call in progress
    data,        \* per thread, the document it read (local variable `data`)
    tmpFile,     \* contents of json_path + ".tmp"
    closed,      \* history: per user, ends that found an open session
    lastDone     \* history: per user, the last mutating call that returned

vars == <<backend, utcOffset, now, diskOk, writeOk, disk, mem, memory_db, lastOp, calls,
          ops, prev, credited, prevEv, trail, presence, lock, pc, job, data, tmpFile, closed, lastDone>>

envVars  == <<backend, utcOffset, writeOk>>
concVars == <<lock, pc, job, data, tmpFile, closed, lastDone>>
evVars   == <<prevEv, trail, presence>>

----------------------------------------------------------------------------
\* Bounds of the model
MaxTime   == 2
MaxOps    == 3
MaxEvents == 3
MaxCalls  == 3
MaxSteps  == 4
MaxTotal  == 1
MaxLimit  == 2

Users    == {1, 2}
Channels == {1, 2}
Offsets  == {-1, 0, 1}
Threads  == {1, 2}
Types    == {"voice", "stream"}

----------------------------------------------------------------------------
\* Rows and stores

\* Python None, SQL "no row", a missing key: the empty tuple, which is no row,
\* no document and no call, and can be compared with each of them.
None == << >>

\* A stored timestamp text; fmt "bad" is a text no parser accepts.
Ts(n) == [fmt |-> "iso", t |-> n]
BadTs == [fmt |-> "bad", t |-> 0]

\* key_order: the order of the keys of the flat file's aggregate maps (a
\* dict keeps insertion order, and so does the file); the relational tables
\* have none.
EmptyStore ==
    [ active_sessions |-> [u \in Users |-> None],
      voice_time      |-> [u \in Users |-> None],
      streamers       |-> [u \in Users |-> None],
      key_order       |-> [voice_time |-> << >>, streamers |-> << >>] ]

\* One aggregate table shared by both activity types.
AggTableShared(type) == "voice_time"

\* The aggregate table of an activity type.
AggTable(type) == IF type = "voice" THEN "voice_time" ELSE "streamers"

\* A duration in minutes, as the quotient num/den.
Minutes(seconds) == <<seconds, 60>>
Zero == <<0, 1>>

----------------------------------------------------------------------------
\* Clocks and timestamps

\* datetime.now(): the host's naive local wall clock.
datetime_now == now + utcOffset

\* SQLite's datetime('now'): the UTC wall clock, as text.
sql_datetime_now == Ts(now)

\* _now_iso(): the local wall clock cut to whole seconds, as text.
now_iso == Ts(datetime_now)

\* _parse_time(s): the naive reading of the text, or an exception.
parse_time(s) == [ok |-> s.fmt = "iso", value |-> s.t]

----------------------------------------------------------------------------
\* Results of a ledger call on a world w = [disk, mem, memory_db]

Returned(w, op, uid, store, ret, found, duration) ==
    [ w |-> w,
      call |-> [op |-> op, user |-> uid, outcome |-> "returned", store |-> store,
                ret |-> ret, found |-> found, duration |-> duration] ]

Raised(w, op, uid, store) ==
    [ w |-> w,
      call |-> [op |-> op, user |-> uid, outcome |-> "raised", store |-> store,
                ret |-> None, found |-> FALSE, duration |-> 0] ]

StartOp(type) == IF type = "voice" THEN "start_voice_session" ELSE "start_stream_session"
EndOp(type)   == IF type = "voice" THEN "end_voice_session" ELSE "end_stream_session"

----------------------------------------------------------------------------
\* Relational backend

\* A connection choice that stays with the in-memory connection once it
\* exists.
get_connection_sticky(w) ==
    IF diskOk /\ w.memory_db = "none" THEN [conn |-> "disk", w |-> w]
    ELSE IF w.memory_db = "none"
         THEN [conn |-> "mem", w |-> [w EXCEPT !.memory_db = "open", !.mem = EmptyStore]]
         ELSE [conn |-> "mem", w |-> w]

\* get_connection(): the file when it opens, else the single in-memory
\* connection, created on first need.
get_connection(w) ==
    IF diskOk THEN [conn |-> "disk", w |-> w]
    ELSE IF w.memory_db = "none"
         THEN [conn |-> "mem", w |-> [w EXCEPT !.memory_db = "open", !.mem = EmptyStore]]
         ELSE [conn |-> "mem", w |-> w]

\* conn.cursor() raises on a connection that was closed.
Usable(w, conn) == conn = "disk" \/ w.memory_db = "open"

TablesOf(w, conn)    == IF conn = "disk" THEN w.disk ELSE w.mem
WithTables(w, conn, s) == IF conn = "disk" THEN [w EXCEPT !.disk = s] ELSE [w EXCEPT !.mem = s]

\* conn.close(): a file connection is dropped; closing the shared in-memory
\* connection closes self.memory_db itself and destroys its tables.
conn_close(w, conn) ==
    IF conn = "disk" THEN w ELSE [w EXCEPT !.memory_db = "closed", !.mem = EmptyStore]

\* INSERT OR IGNORE: a row already there is kept.
sql_insert_or_ignore_session(s, uid, type, channel_id) ==
    IF s.active_sessions[uid] # None THEN s
    ELSE [s EXCEPT !.active_sessions[uid] =
            [session_type |-> type, start_time |-> sql_datetime_now, channel_id |-> channel_id]]

\* INSERT OR REPLACE INTO active_sessions: user_id is the primary key.
sql_insert_or_replace_session(s, uid, type, channel_id) ==
    [s EXCEPT !.active_sessions[uid] =
        [session_type |-> type, start_time |-> sql_datetime_now, channel_id |-> channel_id]]

\* The lookup with the session_type condition dropped.
sql_select_session_any_type(s, uid, type) == s.active_sessions[uid]

\* SELECT start_time FROM active_sessions WHERE user_id = ? AND session_type = ?
sql_select_session(s, uid, type) ==
    IF s.active_sessions[uid] # None /\ s.active_sessions[uid].session_type = type
    THEN s.active_sessions[uid] ELSE None

\* The duration computed by the relational end_*_session: an unparsable
\* start falls back to datetime.now().
sql_duration(start_time_str) ==
    LET p == parse_time(start_time_str)
        start_time == IF p.ok THEN p.value ELSE datetime_now
    IN datetime_now - start_time

\* A credit that counts the session and drops its duration.
sql_credit_count_only(s, uid, type, duration) ==
    LET tab == AggTable(type)
        r   == s[tab][uid]
    IN IF r # None
       THEN [s EXCEPT ![tab][uid] = [total |-> r.total, sessions |-> r.sessions + 1]]
       ELSE [s EXCEPT ![tab][uid] = [total |-> 0, sessions |-> 1]]

\* UPDATE ... SET total = ?, sessions = sessions + 1 / INSERT ... (duration, 1)
sql_credit(s, uid, type, duration) ==
    LET tab == AggTable(type)
        r   == s[tab][uid]
    IN IF r # None
       THEN [s EXCEPT ![tab][uid] = [total |-> r.total + duration, sessions |-> r.sessions + 1]]
       ELSE [s EXCEPT ![tab][uid] = [total |-> duration, sessions |-> 1]]

\* DELETE FROM active_sessions, with no WHERE.
sql_delete_all_sessions(s, uid) == [s EXCEPT !.active_sessions = [u \in Users |-> None]]

\* DELETE FROM active_sessions WHERE user_id = ?
sql_delete_session(s, uid) == [s EXCEPT !.active_sessions[uid] = None]

\* conn.commit(): on the file it raises when the write cannot be persisted,
\* and the statements of the transaction are rolled back.
commit_ok(conn) == conn = "mem" \/ writeOk

sqlite_start_session(w, uid, channel_id, type) ==
    LET g == get_connection(w)
    IN IF ~Usable(g.w, g.conn) THEN Raised(g.w, StartOp(type), uid, g.conn)
       ELSE LET s2 == sql_insert_or_replace_session(TablesOf(g.w, g.conn), uid, type, channel_id)
            IN IF ~commit_ok(g.conn) THEN Raised(g.w, StartOp(type), uid, g.conn)
               ELSE Returned(conn_close(WithTables(g.w, g.conn, s2), g.conn),
                             StartOp(type), uid, g.conn, None, FALSE, 0)

sqlite_end_session(w, uid, type) ==
    LET g == get_connection(w)
    IN IF ~Usable(g.w, g.conn) THEN Raised(g.w, EndOp(type), uid, g.conn)
       ELSE LET s   == TablesOf(g.w, g.conn)
                row == sql_select_session(s, uid, type)
            IN IF row = None
               THEN Returned(conn_close(g.w, g.conn), EndOp(type), uid, g.conn, Zero, FALSE, 0)
               ELSE LET duration == sql_duration(row.start_time)
                        s2 == sql_delete_session(sql_credit(s, uid, type, duration), uid)
                    IN IF ~commit_ok(g.conn) THEN Raised(g.w, EndOp(type), uid, g.conn)
                       ELSE Returned(conn_close(WithTables(g.w, g.conn, s2), g.conn),
                                     EndOp(type), uid, g.conn, Minutes(duration), TRUE, duration)

sqlite_get_user_watch_stats(w, uid) ==
    LET g == get_connection(w)
    IN IF ~Usable(g.w, g.conn) THEN Raised(g.w, "get_user_watch_stats", uid, g.conn)
       ELSE LET row == TablesOf(g.w, g.conn).voice_time[uid]
            IN Returned(conn_close(g.w, g.conn), "get_user_watch_stats", uid, g.conn,
                        row, row # None, 0)

----------------------------------------------------------------------------
\* Flat-file backend: the steps between _read_json() and _write_json()

\* A start that also seeds the user's aggregate row with zeros.
json_put_session_seeding(doc, uid, channel_id, type) ==
    [doc EXCEPT !.active_sessions[uid] =
                    [session_type |-> type, start_time |-> now_iso, channel_id |-> channel_id],
                ![AggTable(type)][uid] =
                    IF @ = None THEN [total |-> 0, sessions |-> 0] ELSE @]

\* data["active_sessions"][str(user_id)] = {...}
json_put_session(doc, uid, channel_id, type) ==
    [doc EXCEPT !.active_sessions[uid] =
        [session_type |-> type, start_time |-> now_iso, channel_id |-> channel_id]]

\* sess = data["active_sessions"].get(str(user_id)), of the wanted type
json_get_session(doc, uid, type) ==
    IF doc.active_sessions[uid] # None /\ doc.active_sessions[uid].session_type = type
    THEN doc.active_sessions[uid] ELSE None

\* vt = data[table].get(uid, {total: 0, sessions: 0}); vt.total += duration; ...
json_credit(doc, uid, type, duration) ==
    LET tab == AggTable(type)
        vt  == IF doc[tab][uid] # None THEN doc[tab][uid] ELSE [total |-> 0, sessions |-> 0]
    IN [doc EXCEPT ![tab][uid] = [total |-> vt.total + duration, sessions |-> vt.sessions + 1],
                   !.key_order[tab] = IF doc[tab][uid] = None THEN Append(@, uid) ELSE @]

\* del data["active_sessions"][str(user_id)]
json_delete_session(doc, uid) == [doc EXCEPT !.active_sessions[uid] = None]

\* The body of the flat-file start_*_session on the document it read:
\* [doc: the document to write, write: whether _write_json is reached, call].
json_start_body(doc, uid, channel_id, type) ==
    [ doc |-> json_put_session(doc, uid, channel_id, type), write |-> TRUE,
      call |-> Returned(doc, StartOp(type), uid, "json", None, FALSE, 0).call ]

\* The body of the flat-file end_*_session on the document it read.  The
\* start time is parsed with no handler around it.
json_end_body(doc, uid, type) ==
    LET sess == json_get_session(doc, uid, type)
    IN IF sess = None
       THEN [ doc |-> doc, write |-> FALSE,
              call |-> Returned(doc, EndOp(type), uid, "json", Zero, FALSE, 0).call ]
       ELSE LET p == parse_time(sess.start_time)
            IN IF ~p.ok
               THEN [ doc |-> doc, write |-> FALSE,
                      call |-> Raised(doc, EndOp(type), uid, "json").call ]
               ELSE LET duration == datetime_now - p.value
                    IN [ doc |-> json_delete_session(json_credit(doc, uid, type, duration), uid),
                         write |-> TRUE,
                         call |-> Returned(doc, EndOp(type), uid, "json",
                                           Minutes(duration), TRUE, duration).call ]

\* A write whose failure is swallowed: the method returns as if it had
\* persisted the document.
json_apply_swallowing(w, body) ==
    [ w |-> IF body.write /\ writeOk THEN [w EXCEPT !.disk = body.doc] ELSE w,
      call |-> body.call ]

\* One caller at a time: read, body, write run back to back.  _write_json
\* raises when the temp file cannot be written or renamed, and the target
\* file is then left as it was.
json_apply(w, body) ==
    IF body.write /\ ~writeOk
    THEN Raised(w, body.call.op, body.call.user, "json")
    ELSE [ w |-> IF body.write THEN [w EXCEPT !.disk = body.doc] ELSE w, call |-> body.call ]

\* A lookup that answers an absent user with a record of zeros.
json_get_user_watch_stats_zeros(w, uid) ==
    LET v == w.disk.voice_time[uid]
    IN Returned(w, "get_user_watch_stats", uid, "json",
                IF v = None THEN [total |-> 0, sessions |-> 0] ELSE v, v # None, 0)

json_get_user_watch_stats(w, uid) ==
    LET v == w.disk.voice_time[uid]
    IN Returned(w, "get_user_watch_stats", uid, "json", v, v # None, 0)

----------------------------------------------------------------------------
\* Leaderboards: get_top_voice_users / get_top_streamers

TopOp(type) == IF type = "voice" THEN "get_top_voice_users" ELSE "get_top_streamers"

\* The dict a leaderboard row is.
TopRow(s, type, uid) ==
    [user_id |-> uid, total |-> s[AggTable(type)][uid].total,
     sessions |-> s[AggTable(type)][uid].sessions]

\* The users of a set in ascending order.
RECURSIVE Ascending(_)
Ascending(S) ==
    IF S = {} THEN << >>
    ELSE LET m == CHOOSE x \in S : \A y \in S : x <= y
         IN <<m>> \o Ascending(S \ {m})

\* The order in which the rows reach the sort: the keys of the flat file's
\* map in file order; the relational table scanned by rowid, which is the
\* user_id.
ScanOrder(s, type) ==
    IF backend = "json" THEN s.key_order[AggTable(type)]
    ELSE Ascending({u \in Users : s[AggTable(type)][u] # None})

TableItems(s, type) ==
    LET o == ScanOrder(s, type) IN [i \in 1..Len(o) |-> TopRow(s, type, o[i])]

\* One row put into a list sorted by ascending total.
RECURSIVE InsertAsc(_, _)
InsertAsc(sorted, x) ==
    IF sorted = << >> THEN <<x>>
    ELSE IF Head(sorted).total <= x.total THEN <<Head(sorted)>> \o InsertAsc(Tail(sorted), x)
    ELSE <<x>> \o sorted

\* One row put into a list sorted by descending total, after the rows of
\* the same total (the sort is stable).
RECURSIVE InsertDesc(_, _)
InsertDesc(sorted, x) ==
    IF sorted = << >> THEN <<x>>
    ELSE IF Head(sorted).total >= x.total THEN <<Head(sorted)>> \o InsertDesc(Tail(sorted), x)
    ELSE <<x>> \o sorted

\* items.sort(key=total, reverse=True) / ORDER BY total DESC
RECURSIVE SortDesc(_, _)
SortDesc(items, acc) ==
    IF items = << >> THEN acc
    ELSE SortDesc(Tail(items), InsertDesc(acc, Head(items)))

\* items[:limit] / LIMIT ?, for limit >= 0
TakeFirst(items, limit) ==
    SubSeq(items, 1, IF limit < Len(items) THEN limit ELSE Len(items))

TopRows(s, type, limit) == TakeFirst(SortDesc(TableItems(s, type), << >>), limit)

TopReturned(w, type, store, limit, rows) ==
    [ w |-> w,
      call |-> [op |-> TopOp(type), user |-> 0, outcome |-> "returned", store |-> store,
                ret |-> rows, found |-> rows # << >>, duration |-> 0, limit |-> limit] ]

sqlite_get_top(w, type, limit) ==
    LET g == get_connection(w)
    IN IF ~Usable(g.w, g.conn) THEN Raised(g.w, TopOp(type), 0, g.conn)
       ELSE TopReturned(conn_close(g.w, g.conn), type, g.conn, limit,
                        TopRows(TablesOf(g.w, g.conn), type, limit))

json_get_top(w, type, limit) ==
    TopReturned(w, type, "json", limit, TopRows(w.disk, type, limit))

----------------------------------------------------------------------------
\* Public API of VoiceTrackerDatabase, on a world

start_session(w, uid, channel_id, type) ==
    IF backend = "sqlite" THEN sqlite_start_session(w, uid, channel_id, type)
    ELSE json_apply(w, json_start_body(w.disk, uid, channel_id, type))

end_session(w, uid, type) ==
    IF backend = "sqlite" THEN sqlite_end_session(w, uid, type)
    ELSE json_apply(w, json_end_body(w.disk, uid, type))

start_voice_session(w, uid, channel_id)  == start_session(w, uid, channel_id, "voice")
end_voice_session(w, uid)                == end_session(w, uid, "voice")
start_stream_session(w, uid, channel_id) == start_session(w, uid, channel_id, "stream")
end_stream_session(w, uid)               == end_session(w, uid, "stream")

get_user_watch_stats(w, uid) ==
    IF backend = "sqlite" THEN sqlite_get_user_watch_stats(w, uid)
    ELSE json_get_user_watch_stats(w, uid)

get_top(w, type, limit) ==
    IF backend = "sqlite" THEN sqlite_get_top(w, type, limit)
    ELSE json_get_top(w, type, limit)

get_top_voice_users(w, limit) == get_top(w, "voice", limit)
get_top_streamers(w, limit)   == get_top(w, "stream", limit)

----------------------------------------------------------------------------
\* The mystats command: the caller's rank in each leaderboard

\* The number of rows mystats asks the leaderboards for.
RankWindow == 100

\* A scan that numbers the rows from 0.
RECURSIVE rank_scan_from_zero(_, _, _)
rank_scan_from_zero(rows, uid, i) ==
    IF i > Len(rows) THEN None
    ELSE IF rows[i].user_id = uid THEN [rank |-> i - 1, stats |-> rows[i]]
    ELSE rank_scan_from_zero(rows, uid, i + 1)

\* for i, row in enumerate(rows, 1): if row['user_id'] == user_id: ...; break
RECURSIVE rank_scan(_, _, _)
rank_scan(rows, uid, i) ==
    IF i > Len(rows) THEN None
    ELSE IF rows[i].user_id = uid THEN [rank |-> i, stats |-> rows[i]]
    ELSE rank_scan(rows, uid, i + 1)

\* mystats with a leaderboard window of the given size: the streamers are
\* read and scanned first, then the voice users; an exception ends the
\* command.
mystats_window(w, uid, window) ==
    LET r1 == get_top_streamers(w, window)
    IN IF r1.call.outcome = "raised" THEN [w |-> r1.w, calls |-> <<r1.call>>]
       ELSE LET r2 == get_top_voice_users(r1.w, window)
            IN IF r2.call.outcome = "raised" THEN [w |-> r2.w, calls |-> <<r1.call, r2.call>>]
               ELSE LET shown == [stream |-> rank_scan(r1.call.ret, uid, 1),
                                  voice  |-> rank_scan(r2.call.ret, uid, 1)]
                    IN [w |-> r2.w,
                        calls |-> <<r1.call, r2.call,
                                    Returned(r2.w, "mystats", uid, r2.call.store, shown,
                                             shown.stream # None \/ shown.voice # None, 0).call>>]

mystats(w, uid) == mystats_window(w, uid, RankWindow)

----------------------------------------------------------------------------
\* Reading the store

World == [disk |-> disk, mem |-> mem, memory_db |-> memory_db]

\* The store a call made now acts on.
ActingStore == IF backend = "sqlite" /\ ~diskOk THEN mem ELSE disk

HasOpen(s, u, type) ==
    s.active_sessions[u] # None /\ s.active_sessions[u].session_type = type

AggTotal(s, type, u) ==
    IF s[AggTable(type)][u] = None THEN 0 ELSE s[AggTable(type)][u].total

AggSessions(s, type, u) ==
    IF s[AggTable(type)][u] = None THEN 0 ELSE s[AggTable(type)][u].sessions

----------------------------------------------------------------------------
\* History kept for stating the properties (not program state)

NoPrev == [op |-> "none", at |-> 0, over |-> FALSE, store |-> "none", ok |-> FALSE,
           memStart |-> FALSE]

\* The record of a mutating call made now; over: a start that replaced an
\* open session of its own type; ok: the call returned; memStart: the
\* user's mutating call before this one was a voice start that returned on
\* the in-memory connection.
PrevOf(call, over) ==
    [op |-> call.op, at |-> now, over |-> over, store |-> call.store,
     ok |-> call.outcome = "returned",
     memStart |-> /\ prev[call.user].op = "start_voice_session"
                  /\ prev[call.user].store = "mem"
                  /\ prev[call.user].ok]

NoEvent == [kind |-> "none", at |-> 0]

LastCall == calls[Len(calls)]

NoCredit == [u \in Users |-> [type \in Types |-> [n |-> 0, sum |-> 0]]]

EndType(op) == IF op = "end_voice_session" THEN "voice" ELSE "stream"

\* The ends among the calls that found an open session, added to the count
\* and to the sum of the durations they computed.
RECURSIVE CreditAll(_, _)
CreditAll(cr, cs) ==
    IF cs = << >> THEN cr
    ELSE LET c == Head(cs)
         IN IF c.op \in {"end_voice_session", "end_stream_session"} /\ c.found
            THEN CreditAll([cr EXCEPT ![c.user][EndType(c.op)] =
                                [n |-> @.n + 1, sum |-> @.sum + c.duration]], Tail(cs))
            ELSE CreditAll(cr, Tail(cs))

----------------------------------------------------------------------------
\* Initial states: the object just constructed on an empty store

InitCommon ==
    /\ backend \in {"sqlite", "json"}
    /\ utcOffset \in Offsets
    /\ writeOk = TRUE
    /\ now = 0
    /\ disk = EmptyStore
    /\ mem = EmptyStore
    /\ lastOp = [user |-> 0, kind |-> "none"]
    /\ calls = << >>
    /\ ops = 0
    /\ prev = [u \in Users |-> NoPrev]
    /\ credited = NoCredit
    /\ prevEv = [u \in Users |-> NoEvent]
    /\ trail = [u \in Users |-> << >>]
    /\ presence = [u \in Users |-> [channel |-> 0, self_stream |-> FALSE]]
    /\ lock = 0
    /\ pc = [t \in Threads |-> "idle"]
    /\ job = [t \in Threads |-> None]
    /\ data = [t \in Threads |-> None]
    /\ tmpFile = None
    /\ closed = [u \in Users |-> 0]
    /\ lastDone = [u \in Users |-> "none"]

\* __init__ with a database file that opens.
Init ==
    /\ InitCommon
    /\ diskOk = TRUE
    /\ memory_db = "none"

----------------------------------------------------------------------------
\* Operations of the ledger, one caller at a time

Commit(r) ==
    /\ disk' = r.w.disk
    /\ mem' = r.w.mem
    /\ memory_db' = r.w.memory_db

Invoke(r) ==
    /\ ops < MaxOps
    /\ ops' = ops + 1
    /\ Commit(r)
    /\ calls' = <<r.call>>
    /\ lastOp' = [user |-> r.call.user, kind |-> r.call.op]
    /\ credited' = CreditAll(credited, <<r.call>>)
    /\ UNCHANGED <<envVars, now, diskOk, evVars, concVars>>

StartVoiceSession(u, ch) ==
    LET r == start_voice_session(World, u, ch)
    IN /\ Invoke(r)
       /\ prev' = [prev EXCEPT ![u] = PrevOf(r.call, HasOpen(ActingStore, u, "voice"))]

EndVoiceSession(u) ==
    LET r == end_voice_session(World, u)
    IN /\ Invoke(r)
       /\ prev' = [prev EXCEPT ![u] = PrevOf(r.call, FALSE)]

StartStreamSession(u, ch) ==
    LET r == start_stream_session(World, u, ch)
    IN /\ Invoke(r)
       /\ prev' = [prev EXCEPT ![u] = PrevOf(r.call, HasOpen(ActingStore, u, "stream"))]

EndStreamSession(u) ==
    LET r == end_stream_session(World, u)
    IN /\ Invoke(r)
       /\ prev' = [prev EXCEPT ![u] = PrevOf(r.call, FALSE)]

GetUserWatchStats(u) ==
    /\ Invoke(get_user_watch_stats(World, u))
    /\ UNCHANGED prev

\* The clocks advance.
Tick ==
    /\ now < MaxTime
    /\ now' = now + 1
    /\ UNCHANGED <<envVars, diskOk, disk, mem, memory_db, lastOp, calls, ops, prev, credited, evVars, concVars>>

Next ==
    \/ \E u \in Users, ch \in Channels : StartVoiceSession(u, ch)
    \/ \E u \in Users : EndVoiceSession(u)
    \/ \E u \in Users, ch \in Channels : StartStreamSession(u, ch)
    \/ \E u \in Users : EndStreamSession(u)
    \/ \E u \in Users : GetUserWatchStats(u)
    \/ Tick

Spec == Init /\ [][Next]_vars

----------------------------------------------------------------------------
\* The process restarts: a new VoiceTrackerDatabase on the same path

\* A path at which no file exists.
Missing == [missing |-> TRUE]

\* A construction that writes the empty document whatever is there.
init_json_store_reset(file) == EmptyStore

\* _init_json_store(): the empty document is written only when no file
\* exists at json_path.
init_json_store(file) == IF file = Missing THEN EmptyStore ELSE file

\* _init_sqlite(): CREATE TABLE IF NOT EXISTS keeps the tables that exist.
init_sqlite(file) == IF file = Missing THEN EmptyStore ELSE file

\* The store __init__ sets up: the flat file, the database file, or, when
\* the database file does not open, the in-memory connection that
\* get_connection creates and _init_sqlite closes again.  No branch raises
\* for a file that does not open.
ConstructedOn ==
    IF backend = "json" THEN "json" ELSE IF diskOk THEN "disk" ELSE "mem"

\* __init__ of the new instance; what the old instance held in memory (the
\* in-memory connection, the lock) is gone with the old process.
Restart ==
    /\ disk' = (IF backend = "sqlite" /\ diskOk THEN init_sqlite(disk)
                ELSE IF backend = "json" THEN init_json_store(disk)
                ELSE disk)
    /\ mem' = EmptyStore
    /\ memory_db' = (IF backend = "sqlite" /\ ~diskOk THEN "closed" ELSE "none")
    /\ lastOp' = [user |-> 0, kind |-> "restart"]
    /\ calls' = <<Returned(World, "__init__", 0, ConstructedOn, None, FALSE, 0).call>>
    /\ UNCHANGED <<envVars, now, diskOk, ops, prev, credited, evVars, concVars>>

NextRestart ==
    \/ Next
    \/ Restart

SpecRestart == Init /\ [][NextRestart]_vars


----------------------------------------------------------------------------
\* Leaderboard reads on a store that holds aggregates

Limits == 0..MaxLimit

SessionCounts == {1, 2}

AggRows == [total : 0..MaxTotal, sessions : SessionCounts]

\* The orders in which the keys of an aggregate map can stand in the file.
KeyOrders(table) ==
    LET present == {u \in Users : table[u] # None}
    IN { o \in UNION { [1..n -> present] : n \in 0..Cardinality(Users) } :
            /\ Len(o) = Cardinality(present)
            /\ \A i, j \in 1..Len(o) : i # j => o[i] # o[j] }

\* The store after some history of closed sessions, none open.
InitTop ==
    /\ backend \in {"sqlite", "json"}
    /\ utcOffset = 0
    /\ writeOk = TRUE
    /\ now = 0
    /\ diskOk = TRUE
    /\ memory_db = "none"
    /\ \E vt \in [Users -> AggRows \cup {None}], st \in [Users -> AggRows \cup {None}] :
         \E vo \in KeyOrders(vt), so \in KeyOrders(st) :
            /\ disk = [ active_sessions |-> [u \in Users |-> None],
                        voice_time |-> vt, streamers |-> st,
                        key_order |-> IF backend = "json"
                                      THEN [voice_time |-> vo, streamers |-> so]
                                      ELSE [voice_time |-> << >>, streamers |-> << >>] ]
            /\ credited = [u \in Users |-> [type \in Types |->
                             LET r == IF type = "voice" THEN vt[u] ELSE st[u]
                             IN IF r = None THEN [n |-> 0, sum |-> 0]
                                ELSE [n |-> r.sessions, sum |-> r.total]]]
    /\ mem = EmptyStore
    /\ lastOp = [user |-> 0, kind |-> "none"]
    /\ calls = << >>
    /\ ops = 0
    /\ prev = [u \in Users |-> NoPrev]
    /\ prevEv = [u \in Users |-> NoEvent]
    /\ trail = [u \in Users |-> << >>]
    /\ presence = [u \in Users |-> [channel |-> 0, self_stream |-> FALSE]]
    /\ lock = 0
    /\ pc = [t \in Threads |-> "idle"]
    /\ job = [t \in Threads |-> None]
    /\ data = [t \in Threads |-> None]
    /\ tmpFile = None
    /\ closed = [u \in Users |-> 0]
    /\ lastDone = [u \in Users |-> "none"]

\* A read-only method called; reads are not counted.
Read(r) ==
    /\ Commit(r)
    /\ calls' = <<r.call>>
    /\ lastOp' = [user |-> r.call.user, kind |-> r.call.op]
    /\ UNCHANGED <<envVars, now, diskOk, ops, prev, credited, evVars, concVars>>

GetTopVoiceUsers(n) == Read(get_top_voice_users(World, n))

GetTopStreamers(n) == Read(get_top_streamers(World, n))

\* The command run for a user.
MyStats(u) ==
    LET r == mystats(World, u)
    IN /\ Commit(r)
       /\ calls' = r.calls
       /\ lastOp' = [user |-> u, kind |-> "mystats"]
       /\ UNCHANGED <<envVars, now, diskOk, ops, prev, credited, evVars, concVars>>

NextTop ==
    \/ \E n \in Limits : GetTopVoiceUsers(n)
    \/ \E n \in Limits : GetTopStreamers(n)
    \/ \E u \in Users : MyStats(u)

SpecTop == InitTop /\ [][NextTop]_vars

----------------------------------------------------------------------------
\* Event adapter: VoiceTimeTracker

NoChannel == 0

\* A VoiceState as the handler reads it; Discord reports self_stream only
\* for a member who is in a channel.
VoiceStates ==
    { vs \in [channel : Channels \cup {NoChannel}, self_stream : BOOLEAN] :
        vs.self_stream => vs.channel # NoChannel }

\* A chain without the branch for a move.
ChannelBranchNoMove(before, after) ==
    IF before.channel = NoChannel /\ after.channel # NoChannel THEN "join"
    ELSE IF before.channel # NoChannel /\ after.channel = NoChannel THEN "leave"
    ELSE "none"

\* The if / elif / elif chain on the channels.
ChannelBranch(before, after) ==
    IF before.channel = NoChannel /\ after.channel # NoChannel THEN "join"
    ELSE IF before.channel # NoChannel /\ after.channel = NoChannel THEN "leave"
    ELSE IF before.channel # after.channel THEN "move"
    ELSE "none"

\* The two ifs on self_stream.
StreamBranch(before, after) ==
    IF ~before.self_stream /\ after.self_stream THEN "on"
    ELSE IF before.self_stream /\ ~after.self_stream THEN "off"
    ELSE "none"

\* The ledger calls the handler makes for an event, in order.
LedgerCalls(before, after) ==
    LET cb == ChannelBranch(before, after)
        sb == StreamBranch(before, after)
        startVoice  == [op |-> "start", type |-> "voice", channel |-> after.channel]
        endVoice    == [op |-> "end", type |-> "voice", channel |-> before.channel]
        startStream == [op |-> "start", type |-> "stream", channel |-> after.channel]
        endStream   == [op |-> "end", type |-> "stream", channel |-> before.channel]
    IN (IF cb = "join" THEN <<startVoice>>
        ELSE IF cb = "leave" THEN <<endVoice>>
        ELSE IF cb = "move" THEN <<endVoice, startVoice>>
        ELSE << >>)
       \o (IF sb = "on" THEN <<startStream>> ELSE << >>)
       \o (IF sb = "off" THEN <<endStream>> ELSE << >>)

\* user_joined_voice / user_left_voice / user_started_streaming /
\* user_stopped_streaming: one ledger call each.
LedgerCall(w, uid, c) ==
    IF c.op = "start" THEN start_session(w, uid, c.channel, c.type)
    ELSE end_session(w, uid, c.type)

\* The calls run in order; an exception ends the handler.
RECURSIVE RunCalls(_, _, _, _)
RunCalls(w, uid, todo, made) ==
    IF todo = << >> THEN [w |-> w, calls |-> made]
    ELSE LET r == LedgerCall(w, uid, Head(todo))
         IN IF r.call.outcome = "raised"
            THEN [w |-> r.w, calls |-> Append(made, r.call)]
            ELSE RunCalls(r.w, uid, Tail(todo), Append(made, r.call))

handle_voice_state_update(w, uid, before, after) ==
    RunCalls(w, uid, LedgerCalls(before, after), << >>)

\* The notification an event is, in the vocabulary of the event source.
EventKind(before, after) ==
    LET cb == ChannelBranch(before, after)
        sb == StreamBranch(before, after)
    IN IF cb = "none" /\ sb = "none" THEN "OTHER"
       ELSE IF sb = "none" THEN (IF cb = "join" THEN "JOIN"
                                 ELSE IF cb = "leave" THEN "LEAVE" ELSE "MOVE")
       ELSE IF cb = "none" THEN (IF sb = "on" THEN "STREAM_START" ELSE "STREAM_STOP")
       ELSE "MIXED"

\* History: the user's events since construction, kept while they follow one
\* of the scenarios below; events that change neither channel nor stream
\* flag are not recorded.
Scenarios ==
    { <<"JOIN", "MOVE", "LEAVE">>,
      <<"JOIN", "STREAM_START", "STREAM_STOP", "LEAVE">>,
      <<"JOIN", "STREAM_START", "MOVE", "STREAM_STOP">> }

OffTrail == << [kind |-> "off", at |-> 0] >>

IsPrefix(p, q) == Len(p) <= Len(q) /\ \A i \in 1..Len(p) : p[i] = q[i]

Kinds(tr) == [i \in 1..Len(tr) |-> tr[i].kind]

Extend(tr, kind) ==
    IF kind = "OTHER" THEN tr
    ELSE IF tr = OffTrail THEN OffTrail
    ELSE LET t2 == Append(tr, [kind |-> kind, at |-> now])
         IN IF \E sc \in Scenarios : IsPrefix(Kinds(t2), sc) THEN t2 ELSE OffTrail

\* The handler runs on one event.
Deliver(u, before, after) ==
    LET r == handle_voice_state_update(World, u, before, after)
        kind == EventKind(before, after)
    IN /\ ops' = ops + 1
       /\ Commit(r)
       /\ calls' = r.calls
       /\ lastOp' = [user |-> u, kind |-> kind]
       /\ prevEv' = [prevEv EXCEPT ![u] = [kind |-> kind, at |-> now]]
       /\ trail' = [trail EXCEPT ![u] = Extend(trail[u], kind)]
       /\ credited' = CreditAll(credited, r.calls)
       /\ UNCHANGED <<envVars, now, diskOk, prev, concVars>>

\* One presence event delivered to the handler, with any before and after
\* (events may have been missed while the process was down).
HandleVoiceStateUpdate(u, before, after) ==
    /\ ops < MaxEvents
    /\ Deliver(u, before, after)
    /\ UNCHANGED presence

NextTracker ==
    \/ \E u \in Users, before \in VoiceStates, after \in VoiceStates :
          HandleVoiceStateUpdate(u, before, after)
    \/ Tick

SpecTracker == Init /\ [][NextTracker]_vars

----------------------------------------------------------------------------
\* The event source reports every change of a member's voice state, from
\* the state it reported last (no event is missed); a change of mute or
\* deafen is an event whose channel and self_stream are as before

PresenceChange(u, after) ==
    /\ ops < MaxSteps
    /\ Deliver(u, presence[u], after)
    /\ presence' = [presence EXCEPT ![u] = after]

NextPresence ==
    \/ \E u \in Users, after \in VoiceStates : PresenceChange(u, after)
    \/ Tick

SpecPresence == Init /\ [][NextPresence]_vars

\* The same events with the clocks left out: which ledger calls an event
\* makes does not depend on the time.
InitDispatch ==
    /\ Init
    /\ utcOffset = 0

NextDispatch == \E u \in Users, after \in VoiceStates : PresenceChange(u, after)

SpecDispatch == InitDispatch /\ [][NextDispatch]_vars

----------------------------------------------------------------------------
\* The database file stops and starts opening (relational backend)

\* __init__ on a file that may not open: _init_sqlite creates the in-memory
\* connection through get_connection and then closes it.
InitDegraded ==
    /\ InitCommon
    /\ backend = "sqlite"
    /\ diskOk \in BOOLEAN
    /\ memory_db = (IF diskOk THEN "none" ELSE "closed")

DiskFails ==
    /\ diskOk
    /\ diskOk' = FALSE
    /\ UNCHANGED <<envVars, now, disk, mem, memory_db, lastOp, calls, ops, prev, credited, evVars, concVars>>

DiskRecovers ==
    /\ ~diskOk
    /\ diskOk' = TRUE
    /\ UNCHANGED <<envVars, now, disk, mem, memory_db, lastOp, calls, ops, prev, credited, evVars, concVars>>

NextDegraded ==
    \/ Next
    \/ DiskFails
    \/ DiskRecovers

SpecDegraded == InitDegraded /\ [][NextDegraded]_vars

\* The same with the clocks left out: which store a call acts on does not
\* depend on the time.
InitStore ==
    /\ InitDegraded
    /\ utcOffset = 0

NextStore ==
    \/ \E u \in Users, ch \in Channels : StartVoiceSession(u, ch)
    \/ \E u \in Users : EndVoiceSession(u)
    \/ \E u \in Users, ch \in Channels : StartStreamSession(u, ch)
    \/ \E u \in Users : EndStreamSession(u)
    \/ \E u \in Users : GetUserWatchStats(u)
    \/ DiskFails
    \/ DiskRecovers

SpecStore == InitStore /\ [][NextStore]_vars

\* Construction, too, may meet a database file that does not open.
NextInit ==
    \/ NextDegraded
    \/ Restart

SpecInit == InitDegraded /\ [][NextInit]_vars

----------------------------------------------------------------------------
\* A stored start_time that no parser accepts (the store edited from outside)

CorruptStartTime(u) ==
    /\ disk.active_sessions[u] # None
    /\ disk.active_sessions[u].start_time # BadTs
    /\ disk' = [disk EXCEPT !.active_sessions[u].start_time = BadTs]
    /\ UNCHANGED <<envVars, now, diskOk, mem, memory_db, lastOp, calls, ops, prev, credited, evVars, concVars>>

NextCorrupt ==
    \/ Next
    \/ \E u \in Users : CorruptStartTime(u)

SpecCorrupt == Init /\ [][NextCorrupt]_vars

----------------------------------------------------------------------------
\* The persisting write stops and starts succeeding (disk full, read-only
\* file system)

WriteFails ==
    /\ writeOk
    /\ writeOk' = FALSE
    /\ UNCHANGED <<backend, utcOffset, now, diskOk, disk, mem, memory_db, lastOp, calls, ops,
                   prev, credited, evVars, concVars>>

WriteRecovers ==
    /\ ~writeOk
    /\ writeOk' = TRUE
    /\ UNCHANGED <<backend, utcOffset, now, diskOk, disk, mem, memory_db, lastOp, calls, ops,
                   prev, credited, evVars, concVars>>

NextWriteFail ==
    \/ Next
    \/ WriteFails
    \/ WriteRecovers

SpecWriteFail == Init /\ [][NextWriteFail]_vars

----------------------------------------------------------------------------
\* Flat-file backend with concurrent callers.  Each call runs
\*   _read_json (lock; read; unlock)  ->  body  ->  _write_json (lock; write
\*   the temp file; os.replace; unlock)
\* and the lock is free between the two.

InitConc ==
    /\ InitCommon
    /\ backend = "json"
    /\ diskOk = TRUE
    /\ memory_db = "none"

seqVars == <<envVars, diskOk, mem, memory_db, prev, credited, evVars>>

\* The channel id is stored and never read: concurrent callers pass one.
ConcChannels == {CHOOSE c \in Channels : TRUE}

\* A thread enters a public method.
ConcCall(t, op, type, u, ch) ==
    /\ pc[t] = "idle"
    /\ ops < MaxCalls
    /\ ops' = ops + 1
    /\ job' = [job EXCEPT ![t] = [op |-> op, type |-> type, user |-> u, channel |-> ch, call |-> None]]
    /\ pc' = [pc EXCEPT ![t] = "read"]
    /\ UNCHANGED <<seqVars, now, disk, lastOp, calls, lock, data, tmpFile, closed, lastDone>>

\* _read_json: with self.lock
ReadAcquire(t) ==
    /\ pc[t] = "read"
    /\ lock = 0
    /\ lock' = t
    /\ pc' = [pc EXCEPT ![t] = "read_locked"]
    /\ UNCHANGED <<seqVars, now, disk, lastOp, calls, ops, job, data, tmpFile, closed, lastDone>>

\* _read_json: json.load, then the lock is released
ReadJson(t) ==
    /\ pc[t] = "read_locked"
    /\ pc' = [pc EXCEPT ![t] = "body"]
    /\ data' = [data EXCEPT ![t] = disk]
    /\ lock' = 0
    /\ UNCHANGED <<seqVars, now, disk, lastOp, calls, ops, job, tmpFile, closed, lastDone>>

\* What the method does with the document it read.
BodyOf(j, doc) ==
    IF j.op = "start" THEN json_start_body(doc, j.user, j.channel, j.type)
    ELSE IF j.op = "end" THEN json_end_body(doc, j.user, j.type)
    ELSE [doc |-> doc, write |-> FALSE,
          call |-> json_get_user_watch_stats([disk |-> doc], j.user).call]

\* The history of a call that returns.
ReturnFrom(call, type) ==
    /\ calls' = <<call>>
    /\ lastOp' = [user |-> call.user, kind |-> call.op]
    /\ closed' = IF call.found /\ call.op = EndOp(type)
                 THEN [closed EXCEPT ![call.user] = @ + 1] ELSE closed
    /\ lastDone' = IF call.op = StartOp(type) \/ (call.found /\ call.op = EndOp(type))
                   THEN [lastDone EXCEPT ![call.user] = call.op] ELSE lastDone

\* The method body, on the thread's own copy of the document; a method that
\* does not write returns (or raises) here.
Body(t) ==
    /\ pc[t] = "body"
    /\ LET b == BodyOf(job[t], data[t])
       IN IF b.write
          THEN /\ pc' = [pc EXCEPT ![t] = "write"]
               /\ data' = [data EXCEPT ![t] = b.doc]
               /\ job' = [job EXCEPT ![t].call = b.call]
               /\ UNCHANGED <<lastOp, calls, closed, lastDone>>
          ELSE /\ pc' = [pc EXCEPT ![t] = "idle"]
               /\ data' = [data EXCEPT ![t] = None]
               /\ job' = [job EXCEPT ![t] = None]
               /\ ReturnFrom(b.call, job[t].type)
    /\ UNCHANGED <<seqVars, now, disk, ops, lock, tmpFile>>

\* _write_json: with self.lock
WriteAcquire(t) ==
    /\ pc[t] = "write"
    /\ lock = 0
    /\ lock' = t
    /\ pc' = [pc EXCEPT ![t] = "write_locked"]
    /\ UNCHANGED <<seqVars, now, disk, lastOp, calls, ops, job, data, tmpFile, closed, lastDone>>

\* The two files of the flat-file store.
Files == [target |-> disk, tmp |-> tmpFile]

\* A file the writer did not finish: no parser accepts it.
Partial == [partial |-> TRUE]

\* The document written straight into json_path.
write_in_place(files, content) == [files EXCEPT !.target = content]

\* open(tmp, "w") ... json.dump: the bytes go to json_path + ".tmp".
write_tmp(files, content) == [files EXCEPT !.tmp = content]

\* _write_json: json.dump into the temp file
WriteTmp(t) ==
    /\ pc[t] = "write_locked"
    /\ pc' = [pc EXCEPT ![t] = "replace"]
    /\ LET f == write_tmp(Files, data[t])
       IN disk' = f.target /\ tmpFile' = f.tmp
    /\ UNCHANGED <<seqVars, now, lastOp, calls, ops, lock, job, data, closed, lastDone>>

\* _write_json: os.replace, the lock is released and the method returns
Replace(t) ==
    /\ pc[t] = "replace"
    /\ pc' = [pc EXCEPT ![t] = "idle"]
    /\ tmpFile' = None
    /\ disk' = tmpFile
    /\ lock' = 0
    /\ data' = [data EXCEPT ![t] = None]
    /\ job' = [job EXCEPT ![t] = None]
    /\ ReturnFrom(job[t].call, job[t].type)
    /\ UNCHANGED <<seqVars, now, ops>>

TickConc ==
    /\ now < MaxTime
    /\ now' = now + 1
    /\ UNCHANGED <<seqVars, disk, lastOp, calls, ops, concVars>>

NextConc ==
    \/ \E t \in Threads, op \in {"start", "end"}, type \in Types, u \in Users, ch \in ConcChannels :
          ConcCall(t, op, type, u, ch)
    \/ \E t \in Threads, u \in Users : ConcCall(t, "stats", "voice", u, NoChannel)
    \/ \E t \in Threads : ReadAcquire(t)
    \/ \E t \in Threads : ReadJson(t)
    \/ \E t \in Threads : Body(t)
    \/ \E t \in Threads : WriteAcquire(t)
    \/ \E t \in Threads : WriteTmp(t)
    \/ \E t \in Threads : Replace(t)
    \/ TickConc

SpecConc == InitConc /\ [][NextConc]_vars

----------------------------------------------------------------------------
\* Flat-file backend with concurrent callers whose writes may fail part-way

\* The exception leaves _write_json with the lock still held.
RaiseFromHolding(t) ==
    /\ pc' = [pc EXCEPT ![t] = "idle"]
    /\ lock' = lock
    /\ data' = [data EXCEPT ![t] = None]
    /\ job' = [job EXCEPT ![t] = None]
    /\ calls' = <<Raised(disk, job[t].call.op, job[t].call.user, "json").call>>
    /\ lastOp' = [user |-> job[t].call.user, kind |-> job[t].call.op]
    /\ UNCHANGED <<seqVars, now, ops, closed, lastDone>>

\* The exception leaves _write_json: the with-block releases the lock and
\* the public method raises.
RaiseFrom(t) ==
    /\ pc' = [pc EXCEPT ![t] = "idle"]
    /\ lock' = 0
    /\ data' = [data EXCEPT ![t] = None]
    /\ job' = [job EXCEPT ![t] = None]
    /\ calls' = <<Raised(disk, job[t].call.op, job[t].call.user, "json").call>>
    /\ lastOp' = [user |-> job[t].call.user, kind |-> job[t].call.op]
    /\ UNCHANGED <<seqVars, now, ops, closed, lastDone>>

\* open(tmp, "w") or json.dump fails: the temp file is left unfinished.
WriteTmpFails(t) ==
    /\ pc[t] = "write_locked"
    /\ LET f == write_tmp(Files, Partial)
       IN tmpFile' = f.tmp /\ disk' = f.target
    /\ RaiseFrom(t)

\* os.replace fails: the finished temp file stays beside the target.
ReplaceFails(t) ==
    /\ pc[t] = "replace"
    /\ UNCHANGED <<tmpFile, disk>>
    /\ RaiseFrom(t)

InitFile ==
    /\ InitConc
    /\ utcOffset = 0

NextFile ==
    \/ \E t \in Threads, op \in {"start", "end"}, type \in Types, u \in Users, ch \in ConcChannels :
          ConcCall(t, op, type, u, ch)
    \/ \E t \in Threads, u \in Users : ConcCall(t, "stats", "voice", u, NoChannel)
    \/ \E t \in Threads : ReadAcquire(t)
    \/ \E t \in Threads : ReadJson(t)
    \/ \E t \in Threads : Body(t)
    \/ \E t \in Threads : WriteAcquire(t)
    \/ \E t \in Threads : WriteTmp(t)
    \/ \E t \in Threads : Replace(t)
    \/ \E t \in Threads : WriteTmpFails(t)
    \/ \E t \in Threads : ReplaceFails(t)

SpecFile == InitFile /\ [][NextFile]_vars

----------------------------------------------------------------------------
\* Flat-file backend with concurrent callers, failing reads and writes, and
\* a fair scheduler

\* The public method a thread is in.
JobOp(j) ==
    IF j.op = "start" THEN StartOp(j.type)
    ELSE IF j.op = "end" THEN EndOp(j.type)
    ELSE "get_user_watch_stats"

\* open(json_path) or json.load raises inside _read_json: the with-block
\* releases the lock and the public method raises.
ReadJsonFails(t) ==
    /\ pc[t] = "read_locked"
    /\ pc' = [pc EXCEPT ![t] = "idle"]
    /\ lock' = 0
    /\ data' = [data EXCEPT ![t] = None]
    /\ job' = [job EXCEPT ![t] = None]
    /\ calls' = <<Raised(disk, JobOp(job[t]), job[t].user, "json").call>>
    /\ lastOp' = [user |-> job[t].user, kind |-> JobOp(job[t])]
    /\ UNCHANGED <<seqVars, now, disk, ops, tmpFile, closed, lastDone>>

\* The lock is taken the same way for every user and session type: the
\* callers contend over one user's voice sessions.
LockUsers == {CHOOSE u \in Users : TRUE}

NextLock ==
    \/ \E t \in Threads, op \in {"start", "end"}, u \in LockUsers, ch \in ConcChannels :
          ConcCall(t, op, "voice", u, ch)
    \/ \E t \in Threads, u \in LockUsers : ConcCall(t, "stats", "voice", u, NoChannel)
    \/ \E t \in Threads : ReadAcquire(t)
    \/ \E t \in Threads : ReadJson(t)
    \/ \E t \in Threads : ReadJsonFails(t)
    \/ \E t \in Threads : Body(t)
    \/ \E t \in Threads : WriteAcquire(t)
    \/ \E t \in Threads : WriteTmp(t)
    \/ \E t \in Threads : Replace(t)
    \/ \E t \in Threads : WriteTmpFails(t)
    \/ \E t \in Threads : ReplaceFails(t)

\* A step of thread t that waits for nothing.
ThreadRuns(t) ==
    \/ ReadJson(t) \/ ReadJsonFails(t) \/ Body(t)
    \/ WriteTmp(t) \/ Replace(t) \/ WriteTmpFails(t) \/ ReplaceFails(t)

\* A running thread is scheduled; a thread waiting at "with self.lock" gets
\* the lock if it is free again and again. Every step of a thread moves its
\* position.
FairLock ==
    \A t \in Threads :
        /\ WF_pc(ThreadRuns(t))
        /\ SF_pc(ReadAcquire(t))
        /\ SF_pc(WriteAcquire(t))

SpecLock == InitFile /\ [][NextLock]_vars /\ FairLock

----------------------------------------------------------------------------
\* Properties of the ledger calls (under Spec)

\* The step is the ledger call op for user u.
Called(op, u) == ops' = ops + 1 /\ lastOp' = [user |-> u, kind |-> op]

\* C1: a voice session started at t and ended at t+d, with no other call for
\* the user in between, adds exactly d to total_voice_time and 1 to
\* voice_sessions, in both backends.
C1_StartEndCreditsElapsed ==
    [][\A u \in Users :
        (Called("end_voice_session", u) /\ prev[u].op = "start_voice_session")
        => /\ AggTotal(disk', "voice", u) = AggTotal(disk, "voice", u) + (now - prev[u].at)
           /\ AggSessions(disk', "voice", u) = AggSessions(disk, "voice", u) + 1]_vars

\* C2: starting a session of one type while a session of the other type is
\* open leaves that session open with its start time, so the user then has
\* one open session of each type.
C2_TracksIndependent ==
    [][\A u \in Users : \A type \in Types : \A other \in Types \ {type} :
        (Called(StartOp(type), u) /\ HasOpen(disk, u, other))
        => /\ HasOpen(disk', u, other)
           /\ disk'.active_sessions[u].start_time = disk.active_sessions[u].start_time
           /\ HasOpen(disk', u, type)]_vars

\* C4: an end call for a user with no open session of that type returns 0
\* and changes no aggregate row and no active-session row; so does a
\* duplicate end straight after a successful one.
C4_EndWithoutSessionIsNoOp ==
    [][\A u \in Users : \A type \in Types :
        (Called(EndOp(type), u) /\ ~HasOpen(disk, u, type))
        => /\ calls'[1].outcome = "returned"
           /\ calls'[1].ret = Zero
           /\ disk' = disk
           /\ mem' = mem]_vars

\* A duplicate end: the call just made is an end that found nothing, for a
\* user whose earlier end was credited.
C4_Witness ==
    /\ ops > 0
    /\ lastOp.kind = "end_voice_session"
    /\ LastCall.outcome = "returned" /\ ~LastCall.found /\ LastCall.ret = Zero
    /\ prev[lastOp.user].op = "end_voice_session"
    /\ AggSessions(disk, "voice", lastOp.user) = 1
    /\ disk.active_sessions[lastOp.user] = None

\* C5: when a start replaces an open session of the same type, the next end
\* credits only the time since the second start, and counts one session.
C5_SupersededNotCredited ==
    [][\A u \in Users : \A type \in Types :
        (Called(EndOp(type), u) /\ prev[u].op = StartOp(type) /\ prev[u].over)
        => /\ AggTotal(disk', type, u) = AggTotal(disk, type, u) + (now - prev[u].at)
           /\ AggSessions(disk', type, u) = AggSessions(disk, type, u) + 1]_vars

\* C8: totals are never negative and never decrease, session counts never
\* decrease, and every credited duration is >= 0.
C8_TotalsMonotone ==
    [][\A u \in Users : \A type \in Types :
        /\ AggTotal(disk', type, u) >= AggTotal(disk, type, u)
        /\ AggTotal(disk', type, u) >= 0
        /\ AggSessions(disk', type, u) >= AggSessions(disk, type, u)
        /\ (ops' = ops + 1 => \A i \in 1..Len(calls') : calls'[i].duration >= 0)]_vars

\* The step is the start call of this type for user u with channel ch.
StartStep(type, u, ch) ==
    IF type = "voice" THEN StartVoiceSession(u, ch) ELSE StartStreamSession(u, ch)

\* The timestamp text a start made now stores.
StartStamp == IF backend = "sqlite" THEN sql_datetime_now ELSE now_iso

\* C13: a user has at most one active-session row per activity type (the
\* row is keyed by the user), and a start for a user who has an open session
\* of that type replaces the row: it then carries the start time and the
\* channel of the new call.
C13_StartReplacesRow ==
    [][\A u \in Users : \A type \in Types : \A ch \in Channels :
        (StartStep(type, u, ch) /\ HasOpen(disk, u, type))
        => /\ calls'[1].outcome = "returned"
           /\ disk'.active_sessions[u] =
                 [session_type |-> type, start_time |-> StartStamp, channel_id |-> ch]]_vars

\* A start has just replaced the user's open session of the same type, at a
\* later time and in another channel than an earlier start could have set.
C13_Witness ==
    /\ lastOp.kind = "start_voice_session"
    /\ prev[lastOp.user].op = "start_voice_session"
    /\ prev[lastOp.user].over
    /\ now = MaxTime
    /\ ops = 2
    /\ disk.active_sessions[lastOp.user] =
          [session_type |-> "voice", start_time |-> StartStamp, channel_id |-> 2]

C15_AggregatesLazy ==
    /\ [](\A u \in Users : \A type \in Types :
            disk[AggTable(type)][u] # None => disk[AggTable(type)][u].sessions >= 1)
    /\ [][\A u \in Users : \A type \in Types :
            Called(StartOp(type), u)
            => /\ disk'.voice_time = disk.voice_time
               /\ disk'.streamers = disk.streamers]_vars

\* A start has just been made for a user who has no aggregate row of that
\* type yet, while another aggregate row, created by an end, exists.
C15_Witness ==
    /\ lastOp.kind = "start_stream_session"
    /\ LastCall.outcome = "returned"
    /\ HasOpen(disk, lastOp.user, "stream")
    /\ disk.streamers[lastOp.user] = None
    /\ \E u \in Users : disk.voice_time[u] # None /\ disk.voice_time[u].sessions = 1

\* C17: get_user_watch_stats(u) returns None exactly when no voice session
\* of u has ever been closed, and never a record of zeros; otherwise it
\* returns u's current voice total and session count.  It does not raise for
\* a user without a voice aggregate, whether the user has an open session,
\* only stream data, or nothing.
C17_WatchStats ==
    [][\A u \in Users :
        Called("get_user_watch_stats", u)
        => LET ret == calls'[1].ret
           IN /\ calls'[1].outcome = "returned"
              /\ (ret = None) <=> (credited[u]["voice"].n = 0)
              /\ ret # None
                 => /\ ret = [total |-> AggTotal(disk, "voice", u),
                              sessions |-> AggSessions(disk, "voice", u)]
                    /\ ret.sessions >= 1
              /\ disk' = disk]_vars

\* The lookup has just answered None for a user who has stream data and no
\* closed voice session.
C17_Witness ==
    /\ lastOp.kind = "get_user_watch_stats"
    /\ LastCall.outcome = "returned"
    /\ LastCall.ret = None
    /\ disk.streamers[lastOp.user] # None
    /\ disk.voice_time[lastOp.user] = None

\* C19: end_voice_session and start_voice_session never change a stream
\* aggregate row, and end_stream_session and start_stream_session never
\* change a voice aggregate row.
C19_TypesDoNotCross ==
    [][\A u \in Users :
        /\ (Called("start_voice_session", u) \/ Called("end_voice_session", u))
           => disk'.streamers = disk.streamers
        /\ (Called("start_stream_session", u) \/ Called("end_stream_session", u))
           => disk'.voice_time = disk.voice_time]_vars

\* A voice session has just been started for a user who has a stream
\* aggregate row of nonzero total, and the row is as the stream end left it.
C19_Witness ==
    /\ lastOp.kind = "start_voice_session"
    /\ LastCall.outcome = "returned"
    /\ HasOpen(disk, lastOp.user, "voice")
    /\ disk.streamers[lastOp.user] # None
    /\ disk.streamers[lastOp.user].total # 0
    /\ disk.streamers[lastOp.user] =
          [total |-> credited[lastOp.user]["stream"].sum, sessions |-> 1]

\* C24: in the relational backend the stored start time and the close time
\* are readings of one clock, whatever the host's UTC offset: the start
\* stores what the host clock reads, an end at the instant of the start
\* computes 0 seconds, and the duration an end computes is the time elapsed
\* since the start call.
C24_OneClock ==
    [][\A u \in Users : \A type \in Types :
        backend = "sqlite"
        => /\ Called(StartOp(type), u)
              => disk'.active_sessions[u].start_time = Ts(datetime_now)
           /\ (Called(EndOp(type), u) /\ prev[u].op = StartOp(type))
              => /\ calls'[1].found
                 /\ calls'[1].duration = now - prev[u].at
                 /\ (now = prev[u].at => calls'[1].duration = 0)]_vars

\* The lock is held only by a thread inside one of the two with-blocks.
LockDiscipline ==
    /\ lock \in Threads \cup {0}
    /\ \A t \in Threads :
          /\ lock = t => pc[t] \in {"read_locked", "write_locked", "replace"}
          /\ pc[t] \in {"read_locked", "write_locked", "replace"} => lock = t

\* C28: in the flat-file backend the lock is never acquired by a thread that
\* holds it and is released on every path, a raising read or write included,
\* so under fair scheduling every operation a concurrent caller invokes
\* returns or raises.
C28_EveryCallEnds ==
    /\ []LockDiscipline
    /\ \A t \in Threads : (pc[t] # "idle") ~> (pc[t] = "idle")

\* One call has raised, and a thread waits for the lock another one holds.
C28_Witness ==
    /\ calls # <<>>
    /\ calls[1].outcome = "raised"
    /\ \E t \in Threads : \E o \in Threads \ {t} :
          /\ pc[t] \in {"read", "write"}
          /\ lock = o

\* C27: a start or an end for user u changes no active-session row and no
\* aggregate row of any other user, in both backends.
C27_OtherUsersUntouched ==
    [][\A u \in Users : \A type \in Types :
        (Called(StartOp(type), u) \/ Called(EndOp(type), u))
        => \A v \in Users \ {u} :
              /\ disk'.active_sessions[v] = disk.active_sessions[v]
              /\ disk'.voice_time[v] = disk.voice_time[v]
              /\ disk'.streamers[v] = disk.streamers[v]]_vars

\* An end has just closed and credited one user's session while another
\* user has a session open.
C27_Witness ==
    /\ lastOp.kind = "end_voice_session"
    /\ LastCall.found
    /\ disk.voice_time[lastOp.user] # None
    /\ \E v \in Users \ {lastOp.user} : disk.active_sessions[v] # None

----------------------------------------------------------------------------
\* Properties of the event adapter (under SpecTracker)

\* The step handles an event of this kind for user u.
Handled(kind, u) == ops' = ops + 1 /\ lastOp' = [user |-> u, kind |-> kind]

\* C3: a user in voice who turns streaming on at T0 and off at T0+d gains d
\* seconds and one session in the stream aggregate, and neither event
\* changes the user's voice aggregate row.
C3_StreamToggleCredits ==
    [][\A u \in Users :
        /\ Handled("STREAM_START", u)
           => /\ disk'.voice_time[u] = disk.voice_time[u]
              /\ disk'.streamers[u] = disk.streamers[u]
        /\ (Handled("STREAM_STOP", u) /\ prevEv[u].kind = "STREAM_START")
           => /\ disk'.voice_time[u] = disk.voice_time[u]
              /\ AggTotal(disk', "stream", u) = AggTotal(disk, "stream", u) + (now - prevEv[u].at)
              /\ AggSessions(disk', "stream", u) = AggSessions(disk, "stream", u) + 1]_vars

\* C6: JOIN at T0, MOVE at T0+a, LEAVE at T0+a+b for a user with no earlier
\* events: the voice total is a+b (900 for a=600, b=300) and the count is 2.
C6_JoinMoveLeave ==
    \A u \in Users :
        Kinds(trail[u]) = <<"JOIN", "MOVE", "LEAVE">>
        => /\ AggTotal(disk, "voice", u) = trail[u][3].at - trail[u][1].at
           /\ AggSessions(disk, "voice", u) = 2

----------------------------------------------------------------------------
\* Properties of whole event sequences (under SpecPresence; C25 under
\* SpecDispatch)

\* The timestamp text a start made at UTC time t stores.
StampAt(t) == IF backend = "sqlite" THEN Ts(t) ELSE Ts(t + utcOffset)

\* C22: for JOIN at T0, STREAM_START, STREAM_STOP, LEAVE at T0+d of one
\* user, the voice session opened at JOIN stays open with its start time
\* through the stream events, and after LEAVE the voice aggregate holds d
\* seconds and one session.
C22_VoiceSurvivesStream ==
    \A u \in Users :
        /\ Kinds(trail[u]) \in { <<"JOIN", "STREAM_START">>,
                                 <<"JOIN", "STREAM_START", "STREAM_STOP">> }
           => /\ HasOpen(disk, u, "voice")
              /\ disk.active_sessions[u].start_time = StampAt(trail[u][1].at)
        /\ Kinds(trail[u]) = <<"JOIN", "STREAM_START", "STREAM_STOP", "LEAVE">>
           => /\ AggTotal(disk, "voice", u) = trail[u][4].at - trail[u][1].at
              /\ AggSessions(disk, "voice", u) = 1

\* C23: a MOVE of a user who is streaming leaves the user's open stream
\* session open with its start time, and for JOIN, STREAM_START at T1, MOVE,
\* STREAM_STOP at T1+d the stream aggregate then holds d seconds and one
\* session.
C23_MoveKeepsStream ==
    /\ [][\A u \in Users :
            (Handled("MOVE", u) /\ HasOpen(disk, u, "stream"))
            => /\ HasOpen(disk', u, "stream")
               /\ disk'.active_sessions[u].start_time = disk.active_sessions[u].start_time]_vars
    /\ [](\A u \in Users :
            Kinds(trail[u]) = <<"JOIN", "STREAM_START", "MOVE", "STREAM_STOP">>
            => /\ AggTotal(disk, "stream", u) = trail[u][4].at - trail[u][2].at
               /\ AggSessions(disk, "stream", u) = 1)

\* The names of the voice ledger calls among the calls, in order.
VoiceCallNames(cs) ==
    LET v == SelectSeq(cs, LAMBDA c : c.op \in {"start_voice_session", "end_voice_session"})
    IN [i \in 1..Len(v) |-> v[i].op]

\* C25: an event from no channel to a channel makes exactly one
\* start_voice_session call; one from a channel to no channel exactly one
\* end_voice_session call; one between two different channels makes
\* end_voice_session then start_voice_session; an event that changes
\* neither the channel nor self_stream makes no ledger call and leaves the
\* store unchanged.
C25_EventDispatch ==
    [][\A u \in Users :
        (ops' = ops + 1 /\ lastOp'.user = u)
        => LET before == presence[u]
               after  == presence'[u]
               voice  == VoiceCallNames(calls')
           IN /\ (before.channel = NoChannel /\ after.channel # NoChannel)
                 => voice = <<"start_voice_session">>
              /\ (before.channel # NoChannel /\ after.channel = NoChannel)
                 => voice = <<"end_voice_session">>
              /\ (before.channel # NoChannel /\ after.channel # NoChannel
                    /\ before.channel # after.channel)
                 => voice = <<"end_voice_session", "start_voice_session">>
              /\ (before.channel = after.channel /\ before.self_stream = after.self_stream)
                 => /\ calls' = << >>
                    /\ disk' = disk
                    /\ mem' = mem]_vars

\* A move has just been handled: the voice session of the old channel was
\* found and closed, and one for the new channel was opened.
C25_Witness ==
    /\ lastOp.kind = "MOVE"
    /\ Len(calls) = 2
    /\ calls[1].op = "end_voice_session" /\ calls[1].found
    /\ calls[2].op = "start_voice_session" /\ calls[2].outcome = "returned"
    /\ HasOpen(disk, lastOp.user, "voice")
    /\ disk.active_sessions[lastOp.user].channel_id = presence[lastOp.user].channel

----------------------------------------------------------------------------
\* Properties of the stored start time (under SpecCorrupt)

\* C7: closing a session whose stored start_time cannot be parsed does not
\* raise in either backend: it credits a zero duration, counts the session
\* and removes the active session.
C7_UnparsableStartClosesAtZero ==
    [][\A u \in Users : \A type \in Types :
        (Called(EndOp(type), u) /\ HasOpen(disk, u, type)
            /\ disk.active_sessions[u].start_time = BadTs)
        => /\ calls'[1].outcome = "returned"
           /\ calls'[1].duration = 0
           /\ AggTotal(disk', type, u) = AggTotal(disk, type, u)
           /\ AggSessions(disk', type, u) = AggSessions(disk, type, u) + 1
           /\ disk'.active_sessions[u] = None]_vars

----------------------------------------------------------------------------
\* Properties of a failing write (under SpecWriteFail)

\* C11: an end whose persisting write fails raises instead of returning a
\* duration, and leaves the persisted state as it was: the session is still
\* open and the aggregate is not credited; an end made once writes succeed
\* again finds the session and closes it.
C11_FailedWriteReportsAndKeeps ==
    [][\A u \in Users : \A type \in Types :
        /\ (Called(EndOp(type), u) /\ HasOpen(disk, u, type) /\ ~writeOk)
           => /\ calls'[1].outcome = "raised"
              /\ disk' = disk
              /\ HasOpen(disk', u, type)
        /\ (Called(EndOp(type), u) /\ HasOpen(disk, u, type) /\ writeOk)
           => /\ calls'[1].outcome = "returned"
              /\ calls'[1].found
              /\ ~HasOpen(disk', u, type)
              /\ AggSessions(disk', type, u) = AggSessions(disk, type, u) + 1]_vars

\* An end has just failed on its write: it raised, the session it was to
\* close is still open and nothing was credited.
C11_Witness ==
    /\ ~writeOk
    /\ lastOp.kind = "end_voice_session"
    /\ LastCall.outcome = "raised"
    /\ HasOpen(disk, lastOp.user, "voice")
    /\ AggSessions(disk, "voice", lastOp.user) = 0

----------------------------------------------------------------------------
\* Properties of concurrent flat-file callers (under SpecConc)

AllIdle == \A t \in Threads : pc[t] = "idle"

TypeOfStart(op) == IF op = "start_voice_session" THEN "voice" ELSE "stream"

\* C9: whatever the interleaving, once the calls have returned the document
\* holds the effect of each: every end that found a session is counted in an
\* aggregate, and a user whose last mutating call was a start has that
\* session open.
C9_NoLostUpdate ==
    AllIdle =>
        \A u \in Users :
            /\ AggSessions(disk, "voice", u) + AggSessions(disk, "stream", u) = closed[u]
            /\ lastDone[u] \in {"start_voice_session", "start_stream_session"}
               => HasOpen(disk, u, TypeOfStart(lastDone[u]))
            /\ lastDone[u] \in {"end_voice_session", "end_stream_session"}
               => disk.active_sessions[u] = None

----------------------------------------------------------------------------
\* Properties of a restart (under SpecRestart)

\* C18: in the flat-file backend, constructing a new instance on the same
\* path leaves the existing document as it is, so after any number of end
\* calls the new instance reads the same total and count for every user
\* and type as were credited before the restart.
C18_RestartKeepsTotals ==
    [][(backend = "json" /\ lastOp'.kind = "restart")
        => /\ disk' = disk
           /\ \A u \in Users :
                /\ get_user_watch_stats([disk |-> disk', mem |-> mem', memory_db |-> memory_db'],
                                        u).call.ret
                     = get_user_watch_stats(World, u).call.ret
                /\ \A type \in Types :
                     /\ AggTotal(disk', type, u) = credited[u][type].sum
                     /\ AggSessions(disk', type, u) = credited[u][type].n]_vars

\* A flat-file instance has just been constructed on a document that holds
\* a credited session of nonzero duration and an open session.
C18_Witness ==
    /\ backend = "json"
    /\ lastOp.kind = "restart"
    /\ \E u \in Users : /\ disk.voice_time[u] # None
                         /\ disk.voice_time[u].total # 0
                         /\ credited[u]["voice"].n = 1
    /\ \E u \in Users : disk.active_sessions[u] # None

\* The step is a ledger call.
LedgerStep == ops' = ops + 1

\* Every call acts on the one store chosen at that call: the file when it
\* opens, else the in-memory connection; an end finds a session exactly
\* when that store holds it.
OneStorePerCall ==
    /\ (LedgerStep /\ diskOk)
       => /\ calls'[1].store = "disk"
          /\ mem' = mem /\ memory_db' = memory_db
    /\ (LedgerStep /\ ~diskOk)
       => /\ calls'[1].store = "mem"
          /\ disk' = disk
    /\ \A u \in Users : \A type \in Types :
          Called(EndOp(type), u) => (calls'[1].found <=> HasOpen(ActingStore, u, type))

\* The end of user u, made with the file open, that follows u's start made
\* on the in-memory connection.
EndAfterDegradedStart(type, u) ==
    /\ Called(EndOp(type), u)
    /\ diskOk
    /\ prev[u].op = StartOp(type) /\ prev[u].store = "mem" /\ prev[u].ok

NothingCredited(u) ==
    /\ calls'[1].outcome = "returned"
    /\ calls'[1].ret = Zero
    /\ disk'.voice_time = disk.voice_time
    /\ disk'.streamers = disk.streamers

----------------------------------------------------------------------------
\* Properties of construction (under SpecInit)

\* C21: constructing VoiceTrackerDatabase succeeds only when a store that
\* can hold the three record kinds is usable and persistent; when no such
\* store can be set up the construction raises, so no operation is ever
\* served with zero persistence.
C21_ConstructionNeedsStore ==
    [][(lastOp'.kind = "restart" /\ calls'[1].outcome = "returned")
        => /\ calls'[1].store \in {"json", "disk"}
           /\ LET w == [disk |-> disk', mem |-> mem', memory_db |-> memory_db']
                  g == get_connection(w)
              IN backend = "sqlite" => Usable(g.w, g.conn)]_vars

----------------------------------------------------------------------------
\* Properties of the leaderboards (under SpecTop)

\* The users whose rows are in the list.
Listed(rows) == {rows[i].user_id : i \in 1..Len(rows)}

\* C16: get_top_voice_users(n) and get_top_streamers(n), n >= 0, return at
\* most n rows of the table, in non-increasing order of total; every row
\* returned has a total >= that of every row left out; asking again with no
\* write in between returns the same list; an empty table gives the empty
\* list.
C16_TopN ==
    [][\A type \in Types :
        lastOp'.kind = TopOp(type)
        => LET rows == calls'[1].ret
               n    == calls'[1].limit
               tab  == disk[AggTable(type)]
               have == {u \in Users : tab[u] # None}
           IN /\ calls'[1].outcome = "returned"
              /\ Len(rows) <= n
              /\ \A i \in 1..Len(rows) :
                    /\ rows[i].user_id \in have
                    /\ rows[i] = TopRow(disk, type, rows[i].user_id)
              /\ \A i, j \in 1..Len(rows) :
                    /\ i < j => rows[i].total >= rows[j].total
                    /\ i # j => rows[i].user_id # rows[j].user_id
              /\ \A i \in 1..Len(rows) : \A u \in have \ Listed(rows) :
                    rows[i].total >= tab[u].total
              /\ (n > 0 /\ have # {}) => rows # << >>
              /\ have = {} => rows = << >>
              /\ get_top([disk |-> disk', mem |-> mem', memory_db |-> memory_db'],
                         type, n).call.ret = rows]_vars

\* A leaderboard of one row has just been read from a table of two, and the
\* row returned is not the first the table gives.
C16_Witness ==
    /\ lastOp.kind = "get_top_voice_users"
    /\ LastCall.limit = 1
    /\ Len(LastCall.ret) = 1
    /\ LastCall.ret[1].user_id = 2
    /\ disk.voice_time[1] # None
    /\ disk.voice_time[1].total < disk.voice_time[2].total

\* What the command shows user u for one activity, given the leaderboard
\* rows it scanned: rank i with the i-th row exactly when u is the i-th row,
\* and no data exactly when u is not among the rows.
ShownMatches(shown, rows, u) ==
    /\ \A i \in 1..Len(rows) :
          (shown # None /\ shown.rank = i) <=> (rows[i].user_id = u)
    /\ shown # None => shown.rank \in 1..Len(rows) /\ shown.stats = rows[shown.rank]
    /\ (shown = None) <=> (u \notin Listed(rows))

\* C20: mystats reports rank i for a user exactly when the user is the i-th
\* row of the leaderboard window it read (the top 100 by descending total),
\* and no data for an activity exactly when the user is not in that window,
\* even when the user has an aggregate outside it.
C20_MyStatsRank ==
    [][\A u \in Users :
        (lastOp' = [user |-> u, kind |-> "mystats"])
        => /\ Len(calls') = 3
           /\ calls'[3].outcome = "returned"
           /\ calls'[3].ret = mystats_window(World, u, RankWindow).calls[3].ret
           /\ \A n \in Limits \cup {RankWindow} :
                LET shown  == mystats_window(World, u, n).calls[3].ret
                    voice  == TopRows(disk, "voice", n)
                    stream == TopRows(disk, "stream", n)
                IN /\ ShownMatches(shown.stream, stream, u)
                   /\ ShownMatches(shown.voice, voice, u)]_vars

\* The command has just shown a user rank 2 for voice and no data for
\* streaming; the same user has a nonzero voice aggregate that a window of
\* one row leaves out, for which the lookup gives no data.
C20_Witness ==
    /\ lastOp.kind = "mystats"
    /\ LastCall.ret.voice # None
    /\ LastCall.ret.voice.rank = 2
    /\ LastCall.ret.stream = None
    /\ disk.voice_time[lastOp.user].total # 0
    /\ mystats_window(World, lastOp.user, 1).calls[3].ret.voice = None

----------------------------------------------------------------------------
\* Properties of the two files of the flat-file store (under SpecFile)

\* C12: the target file always holds a complete document, and it changes
\* only by the rename, from the previous document to the writer's new one;
\* a write that fails before or at the rename leaves it as it was, and a
\* reader never loads an unfinished document.
C12_TargetAlwaysComplete ==
    /\ [](disk # Partial /\ \A t \in Threads : data[t] # Partial)
    /\ [][disk' # disk
            => \E t \in Threads : /\ pc[t] = "replace"
                                  /\ pc'[t] = "idle"
                                  /\ calls'[1].outcome = "returned"
                                  /\ disk' = data[t]]_vars

\* A write has just failed part-way: the temp file is unfinished, the call
\* raised, and the target still holds the document of an earlier write
\* while another caller is reading it.
C12_Witness ==
    /\ tmpFile = Partial
    /\ LastCall.outcome = "raised"
    /\ disk # EmptyStore
    /\ \E t \in Threads : pc[t] = "body" /\ data[t] = disk

----------------------------------------------------------------------------
\* Properties of the in-memory fallback connection (under SpecDegraded)

\* C10: while the database file cannot be opened every public operation
\* returns normally, and an end that follows a start made in that mode finds
\* the session and credits it.
C10_DegradedModeServes ==
    [][/\ (ops' = ops + 1 /\ ~diskOk) => calls'[1].outcome = "returned"
       /\ \A u \in Users :
            (Called("end_voice_session", u) /\ ~diskOk
                /\ prev[u].op = "start_voice_session" /\ prev[u].store = "mem")
            => /\ calls'[1].found
               /\ AggSessions(mem', "voice", u) = 1]_vars

====
